---------------------------- MODULE Spec2Model ----------------------------
(***************************************************************************)
(* A model of codenamize.py: the two word lists built at import time, the  *)
(* length tables cached from them, and the three entry points              *)
(* codenamize_particles, codenamize_space and codenamize.                  *)
(*                                                                         *)
(* Words are strings.  Python integers are unbounded, so every integer     *)
(* that can exceed 31 bits (the digest, obj_hash, total_words, index) is a *)
(* little-endian sequence of digits in base Base with no leading zero      *)
(* digit; <<>> is zero.  The statement                                     *)
(*     index = int(index / len(p))                                         *)
(* is Python 3 true division: the quotient is rounded to the nearest       *)
(* IEEE-754 double (53-bit significand, ties to even) and then truncated.  *)
(*                                                                         *)
(* A call runs in steps (pc); between calls the caller may remember one    *)
(* completed call and the value it returned (earlier), so that two calls   *)
(* can be compared.                                                        *)
(***************************************************************************)
EXTENDS Integers, Sequences, FiniteSets

\* the list literal assigned to ADJECTIVES (lines 106-125), in source order.
AdjectivesBlock1 ==
  <<
    "low", "dim", "open", "soft", "vast", "calm", "deep", "slow", "pure", "worn", "easy",
    "cool", "airy", "bare", "late", "lean", "still", "empty", "quiet", "whole", "light",
    "clear", "aware", "loose", "fresh", "plain", "faint", "lowly", "woven", "mossy", "early",
    "simple", "humble", "rooted", "gentle", "subtle", "silent", "supple", "hidden", "serene",
    "tender", "folded", "modest", "honest", "sparse", "fallow", "dimlit", "spaced", "silted",
    "shaded", "veiled", "hollow", "mellow", "flowing", "natural", "patient", "present",
    "rounded", "playful", "aligned", "bending", "unbound", "ancient", "letting", "swaying",
    "distant", "willing", "lowborn", "moonlit", "slender", "untamed", "cracked", "resting",
    "soothed", "dawnlit", "settled", "leafing", "gentled", "unforced", "yielding", "grounded",
    "balanced", "flexible", "timeless", "dwelling", "fragrant", "tranquil", "gracious",
    "seasoned", "drifting", "watchful", "receding", "floating", "unsought", "gentlest",
    "seasonal", "spiraled", "shadowed", "pathless", "barefoot", "returning", "wandering",
    "weathered", "welcoming", "listening", "unhurried", "breathing", "receptive", "submerged",
    "limber", "resting", "soothed", "settled", "hidden", "deepest", "lightest", "emptiest",
    "earliest", "latest", "softest", "stillest", "quietest", "gentlest", "barest", "oldest",
    "simplest", "deepening", "bright", "shifting", "softening", "cooling", "warming",
    "floating", "wandering", "settling", "stilling", "spreading", "clearing"
  >>

\* the words added by ADJECTIVES.extend (lines 127-129), in source order.
AdjectivesBlock2 ==
  <<
    "clearer", "lighter", "slower", "deeper", "softer", "emptier", "vaster", "cooler",
    "quieter", "warmer", "simpler", "purer", "looser", "steadier", "smoother", "broader",
    "lower", "lighter", "gentler", "older", "younger", "brighter", "dimmed", "rooting",
    "bending", "flowing", "glimmering", "settling", "wandering", "drifting", "stilling",
    "listening", "welcoming", "shifting", "dimming", "spreading", "loosening", "warming",
    "cooling", "opening", "closing", "stretching", "thinning", "clearing", "rising", "lowering",
    "folding", "gathering", "quieting", "softening", "pausing", "stilling", "waiting",
    "breathing", "touching", "holding", "resting", "yielding", "balancing", "spanning",
    "swaying", "hovering", "leaning", "lingering", "hollowing", "brimming", "spilling",
    "sheltering", "blooming", "fading", "returning", "renewing", "opening", "closing",
    "growing", "shrinking", "waning", "waxing", "stilling", "sinking", "rising", "broadening",
    "narrowing", "stilling", "lengthening", "shortening", "deepening", "shallowing",
    "anchoring", "loosening", "softening", "hardening", "filling", "emptying", "gleaming",
    "shadowing", "clouding", "clearing", "grounding", "lifting", "stretching", "breathing",
    "soothing", "mending"
  >>

\* the words added by ADJECTIVES.extend (lines 131-142), in source order.
AdjectivesBlock3 ==
  <<
    "leafy", "misty", "woody", "stony", "muddy", "earthy", "windy", "frosty", "dewy", "dusty",
    "cloudy", "starry", "flowery", "rooted", "branching", "budding", "ripening", "shedding",
    "drooping", "curling", "drifting", "floating", "hovering", "pooling", "soaking", "melting",
    "fading", "glowing", "gleaming", "shimmering", "twining", "spiraling", "branching",
    "arching", "swaying", "reaching", "climbing", "crawling", "settling", "weathering",
    "softening", "hardening", "brightening", "darkening", "warming", "cooling", "soothing",
    "stilling", "quieting", "calming", "stretching", "spreading", "deepening", "broadening",
    "narrowing", "lengthening", "shortening", "loosening", "anchoring", "grounding", "sinking",
    "rising", "waxing", "waning", "draining", "filling", "balancing", "centering", "resting",
    "waiting", "blooming", "rippling", "trickling", "flowing", "pouring", "streaming",
    "raining", "snowing", "freezing", "thawing", "covering", "uncovering", "revealing",
    "veiling", "shadowing", "clearing", "opening", "closing", "forming", "dissolving",
    "returning", "pausing", "watching", "listening", "wandering", "roaming", "meandering",
    "lingering", "drifting", "spanning"
  >>

\* the words added by ADJECTIVES.extend (lines 144-155), in source order.
AdjectivesBlock4 ==
  <<
    "rocky", "sandy", "brambly", "thorny", "grassy", "shadowy", "foggy", "hazy", "smoky", "icy",
    "glassy", "pebbly", "knotted", "twisted", "woven", "sinuous", "undulating", "layered",
    "banded", "ringed", "speckled", "spotted", "flecked", "pitted", "creased", "furrowed",
    "etched", "veined", "ridged", "weathered", "ancient", "primordial", "eldest", "immemorial",
    "eternal", "boundless", "measureless", "endless", "infinite", "limitless", "unfolding",
    "becoming", "rippling", "edging", "measuring", "mirroring", "reflected", "absorbing",
    "radiant", "gleaming", "whispering", "murmuring", "humming", "ringing", "singing",
    "resounding", "echoing", "calling", "inviting", "beckoning", "embracing", "holding",
    "enfolding", "surrounding", "cradling", "nurturing", "enclosing", "enveloping", "nesting",
    "harboring", "layering", "masking", "shading", "softening", "cooling", "warming",
    "freshening", "stilling", "clearing", "brightening", "opening", "parting", "receding",
    "unfolding", "arching", "curving", "rolling", "lapping", "lapping", "edging", "skimming",
    "gliding", "swaying", "shifting", "slipping", "flowing", "curling", "twisting", "sliding",
    "sloping"
  >>

\* the words added by ADJECTIVES.extend (lines 157-168), in source order.
AdjectivesBlock5 ==
  <<
    "rootless", "tangled", "knotted", "fibrous", "woody", "barky", "lichened", "weatherbeaten",
    "fissured", "cracked", "splintered", "splitting", "shimmered", "matte", "muted", "dimmed",
    "smoothed", "polished", "tarnished", "blurred", "softened", "washed", "waterworn",
    "windworn", "sunworn", "faded", "bleached", "paled", "brushed", "dappled", "mottled",
    "shadowed", "deepset", "set", "imbued", "infused", "drenched", "soaked", "moistened",
    "parched", "crisp", "brittle", "papery", "grainy", "sandy", "gritty", "chalky", "clayey",
    "pebbled", "stubbled", "graveled", "silted", "tilled", "furrowed", "plowed", "seeded",
    "sprouted", "leafed", "flowered", "fruited", "barebranched", "barelimbed", "budding",
    "bloomed", "fallen", "scattered", "strewn", "littered", "layered", "blanketed", "mantled",
    "veiled", "hooded", "capped", "crowned", "canopied", "vaulted", "pillared", "terraced",
    "tiered", "winding", "meandering", "branching", "forking", "splitting", "braided", "laced",
    "threaded", "filigreed", "etched", "grooved", "furrowed", "pitted", "scored", "scratched",
    "marred", "scarred", "traced", "lined", "wrinkled"
  >>

\* the words added by ADJECTIVES.extend (lines 170-181), in source order.
AdjectivesBlock6 ==
  <<
    "tumbled", "layering", "sheened", "singular", "ancient", "timely", "patient", "seasoning",
    "yielding", "pressing", "shimmering", "wavering", "burgeoning", "cresting", "soaring",
    "plunging", "suspended", "hovering", "wandering", "migrating", "seasonal", "evanescent",
    "delicate", "subdued", "drawn", "pale", "vivid", "fleeting", "vanishing", "gleamed",
    "flourished", "hidden", "revealed", "masked", "blended", "fused", "joined", "seamed",
    "woven", "braided", "rolling", "collapsing", "rising", "settled", "layered", "pooled",
    "spread", "arching", "trembling", "quivering", "drifting", "glowing", "yielded", "held",
    "carried", "borne", "drawn", "touched", "kissed", "brushed", "drenched", "dappled",
    "painted", "cast", "lifted", "turned", "folded", "shaded", "softened", "veiled", "borne",
    "whispered", "sounded", "carried", "suspended", "floating", "eddying", "circling",
    "ringing", "pealing", "glinting", "gleaming", "flashing", "glistening", "tinted", "smudged",
    "layered", "frosted", "iced", "melted", "flowed", "poured", "streamed", "widened",
    "narrowed", "cleansed", "smoothed", "sanded", "grained", "carved"
  >>

\* ADJECTIVES as built by the assignment and the extend calls, before sorting.
AdjectivesSource ==
  AdjectivesBlock1 \o AdjectivesBlock2 \o AdjectivesBlock3 \o AdjectivesBlock4 \o AdjectivesBlock5 \o AdjectivesBlock6

\* the list literal assigned to NOUNS (lines 185-199), in source order.
NounsBlock1 ==
  <<
    "air", "arc", "bank", "beam", "bell", "bough", "breeze", "brook", "bud", "burl", "cairn",
    "calm", "canopy", "cave", "chime", "cliff", "cloud", "coil", "crag", "crest", "curve",
    "current", "dawn", "day", "dew", "drift", "drop", "dusk", "dust", "earth", "echo", "field",
    "fire", "flake", "flow", "fog", "fold", "foot", "form", "frost", "glade", "gleam", "grain",
    "grove", "gust", "haze", "hill", "hollow", "hue", "isle", "knot", "lake", "leaf", "light",
    "line", "moss", "mist", "moon", "mote", "mountain", "mud", "night", "noise", "path", "peak",
    "pebble", "petal", "plain", "pool", "pulse", "rain", "reed", "rest", "ridge", "rift",
    "ring", "rise", "rock", "root", "scale", "seed", "shade", "shadow", "shape", "shell",
    "shine", "shoot", "shore", "sky", "slip", "smoke", "snow", "soil", "song", "spark", "spine",
    "spring", "star", "stem", "step", "stone", "stream", "stripe", "sun", "tide", "time",
    "tone", "track", "trail", "tree", "trunk", "valley", "vein", "view", "vine", "voice",
    "wake", "wave", "way", "whirl", "whisper", "wind", "wing", "wood", "word", "wreath",
    "zenith"
  >>

\* the words added by NOUNS.extend (lines 201-216), in source order.
NounsBlock2 ==
  <<
    "ash", "bark", "beam", "birch", "blossom", "bloom", "bolt", "branch", "brim", "bur", "call",
    "cane", "cedar", "clay", "clearing", "climb", "cone", "cover", "crust", "dell", "dome",
    "echo", "ember", "fan", "fern", "fiber", "firefly", "flare", "flow", "foam", "fold", "fume",
    "furrow", "glimmer", "groove", "gust", "hollow", "horizon", "hum", "hush", "ivy", "lark",
    "layer", "limb", "lily", "loam", "loop", "mire", "murmur", "mycelium", "nest", "net",
    "niche", "nook", "oak", "omen", "overhang", "palm", "patch", "peak", "perch", "pine",
    "pitch", "plane", "pond", "print", "pulse", "quartz", "quiet", "reach", "reed", "rift",
    "rill", "ring", "rip", "rise", "rock", "root", "rush", "sap", "scatter", "scuff", "scrub",
    "shade", "shaft", "sheen", "shoot", "shrub", "silk", "silt", "slope", "smudge", "solstice",
    "spark", "speck", "spore", "spray", "sprig", "spur", "stack", "stone", "strand", "stream",
    "stump", "swirl", "thatch", "thicket", "thorn", "thread", "thrill", "thrush", "thrum",
    "thud", "thump", "tilt", "tint", "tongue", "track", "trickle", "twig", "vault", "veil",
    "verge", "vine", "vista", "wade", "warp", "wash", "way", "whirl", "willow", "wink", "wisp",
    "wither", "wreath", "yew"
  >>

\* the words added by NOUNS.extend (lines 218-234), in source order.
NounsBlock3 ==
  <<
    "ant", "ape", "bee", "beetle", "beet", "berry", "bison", "boar", "branch", "briar", "bull",
    "burrow", "carp", "cat", "cedar", "clover", "cockle", "conch", "crane", "creek", "cress",
    "crow", "deer", "dog", "dove", "eel", "egret", "elm", "falcon", "fern", "finch", "fish",
    "flint", "fowl", "fox", "frog", "furl", "goat", "goose", "hare", "hawk", "heron", "ibis",
    "jay", "koi", "leaflet", "lichen", "lotus", "magnet", "moth", "mulch", "mussel", "nettle",
    "newt", "nut", "oak", "ox", "owl", "peach", "pearl", "peril", "pine", "plum", "pond",
    "poppy", "quail", "quartz", "quill", "raven", "reed", "reptile", "robin", "rootlet", "rush",
    "rye", "salmon", "scale", "scar", "seal", "seedling", "shell", "shrub", "sleet", "snail",
    "snake", "sparrow", "spine", "squid", "stonecrop", "stork", "streamlet", "swan", "swift",
    "thorn", "thrush", "thunder", "tidepool", "toad", "topaz", "trail", "trickle", "trunk",
    "tusk", "vineyard", "vulture", "walnut", "wavelet", "weasel", "weed", "weft", "whale",
    "wheat", "wren", "zephyr", "amber", "arc", "ash", "balm", "basin", "beam", "bristle", "bur",
    "cairn", "cavern", "clod", "coil", "curl", "dune", "eddy", "flare", "fold", "fountain",
    "grove", "hollow", "jet", "lode", "mantle", "marsh", "niche", "pinnacle", "quartz",
    "rapids", "reef", "rootlet", "runoff", "rushes", "sapling", "shoal", "slope", "spume",
    "surf"
  >>

\* the words added by NOUNS.extend (lines 236-251), in source order.
NounsBlock4 ==
  <<
    "alder", "anemone", "ashlar", "asp", "atoll", "aura", "avalanche", "bamboo", "bank",
    "banyan", "basalt", "bay", "beacon", "beam", "birch", "bloom", "bluff", "bog", "boulder",
    "breeze", "briar", "brine", "brooklet", "cactus", "cascade", "cedar", "chasm", "cliffside",
    "clover", "cobble", "coral", "cotton", "crag", "cranny", "crevice", "crook", "crystal",
    "currant", "dahlia", "dam", "delta", "depth", "dove", "driftwood", "eddy", "elm", "elmwood",
    "fennel", "fernwood", "fjord", "flint", "fogbank", "fungus", "garden", "glen", "granite",
    "grove", "gull", "gypsum", "hazel", "heather", "hemlock", "herb", "holloway", "horizon",
    "ice", "iris", "jasmine", "juniper", "kale", "kettle", "lagoon", "lichen", "limestone",
    "lotus", "magnolia", "mallow", "marsh", "mire", "mistletoe", "moraine", "mosswood",
    "myrtle", "nebula", "orchid", "osprey", "palm", "pansy", "papyrus", "pasture", "peak",
    "peony", "pinewood", "pinnacle", "poplar", "prairie", "puff", "reedbed", "relic", "ridge",
    "rill", "riprap", "river", "rosette", "rushwood", "sage", "sedge", "shard", "sheaf",
    "sleet", "slough", "snag", "snowbank", "solstice", "spindle", "spume", "steeple", "steppe",
    "stubble", "sundew", "swale", "sycamore", "tam", "tarn", "thistle", "torrent", "trickle",
    "tundra", "understory", "upland", "valley", "vernal", "vetch", "vista", "waterfall",
    "wattle", "wave", "willowherb", "woodland", "zinnia"
  >>

\* NOUNS as built by the assignment and the extend calls, before sorting.
NounsSource ==
  NounsBlock1 \o NounsBlock2 \o NounsBlock3 \o NounsBlock4
-----------------------------------------------------------------------------
(* Unbounded non-negative integers (Python int).                           *)

\* One digit of an unbounded integer holds 10 bits.
Base == 1024
DigitBits == 10

\* Width of the significand of a Python float (IEEE-754 binary64).
MantissaBits == 53

\* The one member of a one-member set.  Only({F(v) : v \in {e}}) is F(e)
\* with e evaluated once, before F.
Only(S) == CHOOSE v \in S : TRUE

\* The sequence with the elements of the function f on 1..n, each
\* evaluated once.
Tuple(f) == f \o <<>>

\* Drop the zero digits at the most significant end.
BigNorm(x) ==
  IF x = <<>> THEN x
  ELSE IF x[Len(x)] # 0 THEN x
  ELSE LET nz == {i \in 1..Len(x) : x[i] # 0}
       IN  IF nz = {} THEN <<>>
           ELSE SubSeq(x, 1, CHOOSE i \in nz : \A j \in nz : j <= i)

\* The unbounded integer equal to the integer n, 0 <= n < 2^31.
BigOfInt(n) ==
  BigNorm(<<n % Base, (n \div Base) % Base, (n \div (Base * Base)) % Base,
            n \div (Base * Base * Base)>>)

\* Digit i of x, 0 outside 1..Len(x).
BigDigit(x, i) == IF 1 <= i /\ i <= Len(x) THEN x[i] ELSE 0

\* The integer equal to x, for x < Base^3.
IntOfBig(x) ==
  BigDigit(x, 1) + Base * BigDigit(x, 2) + Base * Base * BigDigit(x, 3)

\* -1, 0 or 1 as x < y, x = y or x > y.
BigCmp(x, y) ==
  IF Len(x) < Len(y) THEN -1
  ELSE IF Len(x) > Len(y) THEN 1
  ELSE LET diff == {i \in 1..Len(x) : x[i] # y[i]}
       IN  IF diff = {} THEN 0
           ELSE LET top == CHOOSE i \in diff : \A j \in diff : j <= i
                IN  IF x[top] < y[top] THEN -1 ELSE 1

\* The digits of the number whose digit sums are t, each t[i] < 2 * Base.
\* There is a carry into digit i exactly when some lower digit j overflows
\* by itself and every digit between j and i passes a carry on.
Carried(t) ==
  LET carry(i) ==
        IF i = 1 THEN 0
        ELSE IF t[i - 1] # Base - 1
        THEN (IF t[i - 1] >= Base THEN 1 ELSE 0)
        ELSE IF \E j \in 1..(i - 2) :
                   t[j] >= Base /\ \A k \in (j + 1)..(i - 2) : t[k] >= Base - 1
        THEN 1 ELSE 0
  IN  BigNorm(Tuple([i \in 1..(Len(t) + 1) |->
                 IF i <= Len(t) THEN (t[i] + carry(i)) % Base ELSE carry(i)]))

\* x + y
BigAdd(x, y) ==
  Carried(Tuple([i \in 1..(IF Len(x) >= Len(y) THEN Len(x) ELSE Len(y)) |->
                    BigDigit(x, i) + BigDigit(y, i)]))

\* x - y, for x >= y.  There is a borrow from digit i exactly when some
\* lower digit j is too small by itself and every digit between j and i
\* passes a borrow on.
BigSub(x, y) ==
  LET t == Tuple([i \in 1..Len(x) |-> x[i] - BigDigit(y, i)])
      borrow(i) ==
        IF i = 1 THEN 0
        ELSE IF t[i - 1] # 0
        THEN (IF t[i - 1] < 0 THEN 1 ELSE 0)
        ELSE IF \E j \in 1..(i - 2) :
                   t[j] < 0 /\ \A k \in (j + 1)..(i - 2) : t[k] <= 0
        THEN 1 ELSE 0
  IN  BigNorm(Tuple([i \in 1..Len(x) |->
                        (t[i] - borrow(i) + Base) % Base]))

\* x * Base^k
BigShiftDigits(x, k) ==
  IF x = <<>> THEN <<>> ELSE [i \in 1..k |-> 0] \o x

\* x * m, for 0 <= m <= Base: at each digit, the low half of its product
\* plus the high half of the product one digit down.
BigMulSmall(x, m) ==
  IF x = <<>> \/ m = 0 THEN <<>>
  ELSE Carried(Tuple([i \in 1..(Len(x) + 1) |->
                         ((BigDigit(x, i) * m) % Base)
                         + ((BigDigit(x, i - 1) * m) \div Base)]))

RECURSIVE ColumnSum(_, _, _, _, _)
\* The sum of x[i] * y[j] over i + j = k + 1 and lo <= j <= hi.
ColumnSum(x, y, k, lo, hi) ==
  IF lo > hi THEN 0
  ELSE IF lo = hi THEN BigDigit(x, k + 1 - lo) * y[lo]
  ELSE ColumnSum(x, y, k, lo, (lo + hi) \div 2)
       + ColumnSum(x, y, k, ((lo + hi) \div 2) + 1, hi)

\* x * y, for y of fewer than Base digits: the column sums, each below
\* Base^3, are split into three numbers that are added.
BigMul(x, y) ==
  IF x = <<>> \/ y = <<>> THEN <<>>
  ELSE LET c == Tuple([k \in 1..(Len(x) + Len(y) - 1) |->
                          ColumnSum(x, y, k, 1, Len(y))])
           low  == Tuple([k \in 1..Len(c) |-> c[k] % Base])
           mid  == Tuple([k \in 1..Len(c) |-> (c[k] \div Base) % Base])
           high == Tuple([k \in 1..Len(c) |-> c[k] \div (Base * Base)])
       IN  BigAdd(BigAdd(BigNorm(low), BigShiftDigits(BigNorm(mid), 1)),
                  BigShiftDigits(BigNorm(high), 2))

\* Number of bits of n, for 0 <= n < Base.
SmallBitLen(n) ==
  CHOOSE k \in 0..DigitBits : n < 2^k /\ (k = 0 \/ n >= 2^(k - 1))

\* Number of bits of x (0 for zero), Python's int.bit_length.
BigBitLen(x) ==
  IF x = <<>> THEN 0
  ELSE DigitBits * (Len(x) - 1) + SmallBitLen(x[Len(x)])

\* x * 2^s
BigShl(x, s) ==
  BigShiftDigits(BigMulSmall(x, 2^(s % DigitBits)), s \div DigitBits)

\* The quotient c of the three leading digits of r by the two leading
\* digits of y, for 0 <= r < y * Base: c, c - 1 or c - 2 is the digit d
\* with d * y <= r < (d + 1) * y.
QuotientEstimate(r, y) ==
  LET n == Len(y)
      lead == (BigDigit(r, n + 1) * Base * Base + BigDigit(r, n) * Base
               + BigDigit(r, n - 1))
              \div (y[n] * Base + BigDigit(y, n - 1))
  IN  IF lead >= Base THEN Base - 1 ELSE lead

\* One step of long division: the remainder r so far is followed by the
\* digit a.
DivideDigit(r, a, y) ==
  LET ra == BigNorm(<<a>> \o r)
      c  == QuotientEstimate(ra, y)
      p  == BigMulSmall(y, c)
  IN  IF BigCmp(p, ra) <= 0 THEN [q |-> <<c>>, r |-> BigSub(ra, p)]
      ELSE IF BigCmp(BigSub(p, y), ra) <= 0
      THEN [q |-> <<c - 1>>, r |-> BigSub(ra, BigSub(p, y))]
      ELSE [q |-> <<c - 2>>, r |-> BigSub(ra, BigSub(BigSub(p, y), y))]

RECURSIVE DivideDigits(_, _, _, _, _)
\* Long division of the remainder r so far followed by the digits
\* x[hi], ..., x[lo]: the high half, then the low half with what it left.
DivideDigits(r, x, lo, hi, y) ==
  IF lo = hi THEN DivideDigit(r, x[lo], y)
  ELSE Only({ Only({ [q |-> l.q \o h.q, r |-> l.r] :
                     l \in {DivideDigits(h.r, x, lo,
                                         ((lo + hi + 1) \div 2) - 1, y)} }) :
              h \in {DivideDigits(r, x, (lo + hi + 1) \div 2, hi, y)} })

RECURSIVE ShortDivideDigits(_, _, _, _, _)
\* The same for a divisor d < Base, the remainder r an integer.
ShortDivideDigits(r, x, lo, hi, d) ==
  IF lo = hi
  THEN [q |-> <<(r * Base + x[lo]) \div d>>, r |-> (r * Base + x[lo]) % d]
  ELSE Only({ Only({ [q |-> l.q \o h.q, r |-> l.r] :
                     l \in {ShortDivideDigits(h.r, x, lo,
                                              ((lo + hi + 1) \div 2) - 1,
                                              d)} }) :
              h \in {ShortDivideDigits(r, x, (lo + hi + 1) \div 2, hi, d)} })

\* Floor quotient and remainder of x by y > 0 (Python's divmod).
BigDivMod(x, y) ==
  IF x = <<>> THEN [q |-> <<>>, r |-> <<>>]
  ELSE IF Len(y) = 1
  THEN Only({ [q |-> BigNorm(d.q), r |-> BigNorm(<<d.r>>)] :
              d \in {ShortDivideDigits(0, x, 1, Len(x), y[1])} })
  ELSE Only({ [q |-> BigNorm(d.q), r |-> d.r] :
              d \in {DivideDigits(<<>>, x, 1, Len(x), y)} })

\* x % y, for y > 0
BigMod(x, y) == BigDivMod(x, y).r

\* Round the exact quotient m + r/d (0 <= r < d) to the nearest integer,
\* ties to the even one.
RoundHalfEven(m, r, d) ==
  LET c == BigCmp(BigAdd(r, r), d)
  IN  IF c > 0 \/ (c = 0 /\ BigDigit(m, 1) % 2 = 1)
      THEN BigAdd(m, <<1>>) ELSE m

\* The double nearest to x / y, truncated, when the floor quotient has
\* e <= 53 bits: the double is a multiple of 2^(e-53).
TrueDivFine(x, y, s) ==
  Only({ BigDivMod(m, BigShl(<<1>>, s)).q :
         m \in { RoundHalfEven(d.q, d.r, y) :
                 d \in {BigDivMod(BigShl(x, s), y)} } })

\* The same when the floor quotient has e > 53 bits: the double is a
\* multiple of 2^(e-53).
TrueDivCoarse(x, y, s) ==
  Only({ BigShl(m, s) :
         m \in { RoundHalfEven(d.q, d.r, BigShl(y, s)) :
                 d \in {BigDivMod(x, BigShl(y, s))} } })

\* int(x / y) in Python 3, for y > 0: x / y is the double nearest to the
\* exact quotient, int() truncates it.
TrueDivInt(x, y) ==
  Only({ IF e = 0 THEN <<>>
         ELSE IF e <= MantissaBits THEN TrueDivFine(x, y, MantissaBits - e)
         ELSE TrueDivCoarse(x, y, e - MantissaBits) :
         e \in {BigBitLen(BigDivMod(x, y).q)} })

-----------------------------------------------------------------------------
(* Import time: the word lists are sorted by length and the number of      *)
(* words of each length 3..9 or less is cached.                            *)

\* The length of the longest word of a list, 0 for the empty list.
LongestLen(list) ==
  LET lens == {Len(list[i]) : i \in 1..Len(list)} \cup {0}
  IN  CHOOSE m \in lens : \A l \in lens : l <= m

RECURSIVE SortFrom(_, _, _)
SortFrom(list, l, maxl) ==
  IF l > maxl THEN <<>>
  ELSE SelectSeq(list, LAMBDA w : Len(w) = l) \o SortFrom(list, l + 1, maxl)

\* A faulty variant of SortByLen: the list is left in its source order.
KeepOrder(list) == list

\* list.sort(key=lambda x: len(x)): ascending length; the sort is stable,
\* words of equal length keep their source order.
SortByLen(list) == SortFrom(list, 0, LongestLen(list))

\* The keys of the two length tables.
LengthKeys == {3, 4, 5, 6, 7, 8, 9}

\* { l: sum(1 for a in list if len(a) <= l) for l in (3, 4, 5, 6, 7, 8, 9) }
LengthTable(list) ==
  [l \in LengthKeys |->
     Cardinality({i \in 1..Len(list) : Len(list[i]) <= l})]

-----------------------------------------------------------------------------
(* Values passed to and returned by the entry points.                      *)

None == [type |-> "None"]
IntObj(n) == [type |-> "int", int |-> n]
TextObj(s) == [type |-> "text", text |-> s]
BytesObj(b) == [type |-> "bytes", bytes |-> b]

\* Return values: a space size, a list of words, a codename, or the
\* KeyError a failed length-table lookup raises.
IntResult(x) == [type |-> "int", int |-> x]
ListResult(l) == [type |-> "list", list |-> l]
StrResult(s) == [type |-> "str", str |-> s]
KeyError == [type |-> "KeyError"]

-----------------------------------------------------------------------------
(* Conversions of lines 296-305.                                           *)

DecimalDigit == <<"0", "1", "2", "3", "4", "5", "6", "7", "8", "9">>

RECURSIVE StrOfNat(_)
StrOfNat(n) ==
  IF n < 10 THEN DecimalDigit[n + 1]
  ELSE StrOfNat(n \div 10) \o DecimalDigit[(n % 10) + 1]

RECURSIVE StrOfNatLsdFirst(_)
StrOfNatLsdFirst(n) ==
  IF n < 10 THEN DecimalDigit[n + 1]
  ELSE DecimalDigit[(n % 10) + 1] \o StrOfNatLsdFirst(n \div 10)

\* A faulty variant of StrOfInt: the digits come out least significant
\* first.
StrOfIntLsdFirst(n) ==
  IF n < 0 THEN "-" \o StrOfNatLsdFirst(-n) ELSE StrOfNatLsdFirst(n)

\* str(n) for an integer n: base 10, a minus sign for a negative number.
StrOfInt(n) == IF n < 0 THEN "-" \o StrOfNat(-n) ELSE StrOfNat(n)

\* Code points of the characters that occur in the modelled objects; all
\* are ASCII, so UTF-8 encodes each as the single byte of its code point.
CodePoint ==
  [c \in {"-", "0", "1", "2", "3", "4", "5", "6", "7", "8", "9"} |->
     CASE c = "-" -> 45 [] c = "0" -> 48 [] c = "1" -> 49 [] c = "2" -> 50
       [] c = "3" -> 51 [] c = "4" -> 52 [] c = "5" -> 53 [] c = "6" -> 54
       [] c = "7" -> 55 [] c = "8" -> 56 [] c = "9" -> 57]

\* s.encode('utf-8')
EncodeUtf8(s) == Tuple([i \in 1..Len(s) |-> CodePoint[SubSeq(s, i, i)]])

\* Lines 296-301: the bytes that are hashed for an object.
ObjectBytes(o) ==
  LET text == IF o.type = "int" THEN TextObj(StrOfInt(o.int)) ELSE o
  IN  IF text.type = "text" THEN EncodeUtf8(text.text) ELSE text.bytes

\* hashlib.new(algo).update(b).hexdigest() for the byte strings b"54",
\* b"45" and b"-7", the ones the modelled objects reduce to.
HexDigest(algo, b) ==
  CASE algo = "md5"  /\ b = <<53, 52>> -> "a684eceee76fc522773286a895bc8436"
    [] algo = "md5"  /\ b = <<52, 53>> -> "6c8349cc7260ae62e3b1396831a8398f"
    [] algo = "md5"  /\ b = <<45, 55>> -> "74687a12d3915d3c4d83f1af7b3683d5"
    [] algo = "sha1" /\ b = <<53, 52>>
         -> "80e28a51cbc26fa4bd34938c5e593b36146f5e0c"
    [] algo = "sha1" /\ b = <<52, 53>>
         -> "fb644351560d8296fe6da332236b1f8d61b2828a"
    [] algo = "sha1" /\ b = <<45, 55>>
         -> "565e8bd101bd602536fe79ba40584a1561da3581"

HexValue ==
  [c \in {"0", "1", "2", "3", "4", "5", "6", "7", "8", "9",
          "a", "b", "c", "d", "e", "f"} |->
     CASE c = "0" -> 0 [] c = "1" -> 1 [] c = "2" -> 2 [] c = "3" -> 3
       [] c = "4" -> 4 [] c = "5" -> 5 [] c = "6" -> 6 [] c = "7" -> 7
       [] c = "8" -> 8 [] c = "9" -> 9 [] c = "a" -> 10 [] c = "b" -> 11
       [] c = "c" -> 12 [] c = "d" -> 13 [] c = "e" -> 14 [] c = "f" -> 15]

\* The value of the hexadecimal digit k places from the right end of s,
\* 0 beyond its left end.
HexDigitFromRight(s, k) ==
  IF k < Len(s) THEN HexValue[SubSeq(s, Len(s) - k, Len(s) - k)] ELSE 0

\* int(s, 16): a hexadecimal digit is 4 bits, a digit in base Base is
\* DigitBits bits; digit i is cut out of the three hexadecimal digits
\* that hold its bits.
IntOfHex(s) ==
  BigNorm(Tuple([i \in 1..((4 * Len(s) + DigitBits - 1) \div DigitBits) |->
    LET k  == (DigitBits * (i - 1)) \div 4
        sh == (DigitBits * (i - 1)) % 4
    IN  ((HexDigitFromRight(s, k) + 16 * HexDigitFromRight(s, k + 1)
          + 256 * HexDigitFromRight(s, k + 2)) \div (2^sh)) % Base]))

\* 10^9
Billion == BigOfInt(1000000000)

\* The integer literal on line 305, 36413321723440003717, written in
\* groups of nine decimal digits: 36 413321723 440003717.
Multiplier ==
  BigAdd(BigMul(BigAdd(BigMul(BigOfInt(36), Billion), BigOfInt(413321723)),
                Billion),
         BigOfInt(440003717))

\* Line 305: int(hh.hexdigest(), 16) * 36413321723440003717
ObjHash(algo, b) == BigMul(IntOfHex(HexDigest(algo, b)), Multiplier)

-----------------------------------------------------------------------------
(* Bounds of the model.                                                    *)

\* Largest adjective count a caller passes.
MaxAdjectives == 5

\* Largest character ceiling a caller passes.
MaxItemChars == 10

AdjectiveCounts == 0..MaxAdjectives
\* A ceiling is a non-negative integer.
ItemChars == 0..MaxItemChars
HashAlgos == {"md5", "sha1"}
Objects == {IntObj(54), TextObj("54"), IntObj(-7), BytesObj(<<52, 53>>)}
Joins == {None, TextObj(""), TextObj("-")}

\* The smaller set of calls made next to a remembered earlier call.
RepeatItemChars == {0, 2, 3, MaxItemChars}
RepeatHashAlgos == {"md5"}
RepeatObjects == {IntObj(54), TextObj("54"), IntObj(-7), TextObj("-7")}

\* Largest of the small digests drawn for an object known only by its
\* digest.
MaxDigest == 40

\* An object of which only the value of hexdigest() is known.
DigestObj(d) == [type |-> "digest", digest |-> d]

\* The digest d below 554 * 642^5 with
\* d * 36413321723440003717 mod (554 * 642^5) = 554 * 642^5 - 1, the last
\* index of the space of 5 adjectives and no ceiling: 25143022 252149107.
TopIndexDigest ==
  BigAdd(BigMul(BigOfInt(25143022), Billion), BigOfInt(252149107))

\* The digests drawn: as the object varies the digest takes every value.
Digests == {BigOfInt(d) : d \in 0..MaxDigest} \cup {TopIndexDigest}

-----------------------------------------------------------------------------
(* State.                                                                  *)

VARIABLES
  ADJECTIVES,          \* module-level list, sorted by length at import
  NOUNS,               \* module-level list, sorted by length at import
  ADJECTIVES_LENGTHS,  \* module-level table: ceiling -> slice bound
  NOUNS_LENGTHS,       \* module-level table: ceiling -> slice bound
  pc,                  \* position of the running call, "idle" between calls
  request,             \* entry point and arguments of the running call
  max_item_chars,      \* the local of that name, after lines 279-282
  particles,           \* the local list of word lists
  total_words,         \* the local of that name
  obj_hash,            \* the local of that name
  index,               \* the local of that name
  codename_particles,  \* the local list of selected words
  positions,           \* the subscripts (index) % len(p) of line 311, in
                       \* the order the loop takes them
  ret,                 \* value the running call returns
  earlier              \* a completed call the caller remembers, or None

globals == <<ADJECTIVES, NOUNS, ADJECTIVES_LENGTHS, NOUNS_LENGTHS>>
locals == <<max_item_chars, particles, total_words, obj_hash, index,
            codename_particles, positions>>
vars == <<globals, pc, request, locals, ret, earlier>>

\* Lines 106-258: the state once the module is imported.
Init ==
  /\ ADJECTIVES = SortByLen(AdjectivesSource)
  /\ NOUNS = SortByLen(NounsSource)
  /\ ADJECTIVES_LENGTHS = LengthTable(SortByLen(AdjectivesSource))
  /\ NOUNS_LENGTHS = LengthTable(SortByLen(NounsSource))
  /\ pc = "idle"
  /\ request = None
  /\ max_item_chars = 0
  /\ particles = <<>>
  /\ total_words = <<>>
  /\ obj_hash = <<>>
  /\ index = <<>>
  /\ codename_particles = <<>>
  /\ positions = <<>>
  /\ ret = None
  /\ earlier = None

-----------------------------------------------------------------------------
(* codenamize_particles, lines 261-316.                                    *)

\* A faulty variant of NormalizeMaxItemChars: the upper limit is off by
\* one.
NormalizeAboveTen(m) ==
  LET raised == IF m > 0 /\ m < 3 THEN 3 ELSE m
  IN  IF raised > 10 THEN 0 ELSE raised

\* Lines 279-282: the ceiling the call works with.
NormalizeMaxItemChars(m) ==
  LET raised == IF m > 0 /\ m < 3 THEN 3 ELSE m
  IN  IF raised > 9 THEN 0 ELSE raised

\* A member of particles is kept as the module-level list it is (or is a
\* slice of) and the number of leading words it holds.
Particle(of, upto) == [of |-> of, upto |-> upto]

\* The words of a member of particles.
ParticleWords(p) ==
  SubSeq(IF p.of = "NOUNS" THEN NOUNS ELSE ADJECTIVES, 1, p.upto)

\* A faulty variant of PrepareParticles: the adjectives are not sliced.
PrepareParticlesUnslicedAdjectives(m, adjectives) ==
  <<Particle("NOUNS", IF m > 0 THEN NOUNS_LENGTHS[m] ELSE Len(NOUNS))>>
    \o Tuple([i \in 1..adjectives |->
                 Particle("ADJECTIVES", Len(ADJECTIVES))])

\* Lines 285-288: NOUNS followed by ADJECTIVES once per adjective, each
\* sliced at its cached bound when there is a ceiling m.
PrepareParticles(m, adjectives) ==
  <<Particle("NOUNS", IF m > 0 THEN NOUNS_LENGTHS[m] ELSE Len(NOUNS))>>
    \o Tuple([i \in 1..adjectives |->
                 Particle("ADJECTIVES",
                          IF m > 0 THEN ADJECTIVES_LENGTHS[m]
                          ELSE Len(ADJECTIVES))])

RECURSIVE ProductOfLengths(_)
\* Line 290: functools.reduce(lambda a, b: a * b, [len(p) for p in ps], 1)
ProductOfLengths(ps) ==
  IF ps = <<>> THEN <<1>>
  ELSE BigMulSmall(ProductOfLengths(SubSeq(ps, 1, Len(ps) - 1)),
                   ps[Len(ps)].upto)

\* s reversed.
Reverse(s) == Tuple([i \in 1..Len(s) |-> s[Len(s) + 1 - i]])

\* A call begins: its arguments are bound and its locals are fresh.
Enter(req) ==
  /\ pc' = "prepare"
  /\ request' = req
  /\ max_item_chars' = req.max_item_chars
  /\ particles' = <<>>
  /\ total_words' = <<>>
  /\ obj_hash' = <<>>
  /\ index' = <<>>
  /\ codename_particles' = <<>>
  /\ positions' = <<>>
  /\ ret' = None
  /\ UNCHANGED <<globals, earlier>>

\* The arguments of a call of codenamize_particles.
ParticlesRequest(o, a, m, h) ==
  [fn |-> "codenamize_particles", obj |-> o, adjectives |-> a,
   max_item_chars |-> m, hash_algo |-> h]

\* Lines 319-324: codenamize_space passes None as the object.
SpaceRequest(a, m, h) ==
  [fn |-> "codenamize_space", obj |-> None, adjectives |-> a,
   max_item_chars |-> m, hash_algo |-> h]

\* Line 343: codenamize passes its first four arguments on.
CodenamizeRequest(o, a, m, j, c, h) ==
  [fn |-> "codenamize", obj |-> o, adjectives |-> a, max_item_chars |-> m,
   join |-> j, capitalize |-> c, hash_algo |-> h]

\* A caller calls codenamize_particles; obj may be None.
CallParticles ==
  /\ pc = "idle"
  /\ \E o \in Objects \cup {None}, a \in AdjectiveCounts, m \in ItemChars,
        h \in HashAlgos : Enter(ParticlesRequest(o, a, m, h))

\* A caller calls codenamize_space.
CallSpace ==
  /\ pc = "idle"
  /\ \E a \in AdjectiveCounts, m \in ItemChars, h \in HashAlgos :
       Enter(SpaceRequest(a, m, h))

\* A caller calls codenamize.
CallCodenamize ==
  /\ pc = "idle"
  /\ \E o \in Objects, a \in AdjectiveCounts, m \in ItemChars, j \in Joins,
        c \in BOOLEAN, h \in HashAlgos :
       Enter(CodenamizeRequest(o, a, m, j, c, h))

\* Lines 278-290: normalise the ceiling, build particles, size the space.
\* A ceiling that is positive and not a key of the tables raises KeyError.
Prepare ==
  /\ pc = "prepare"
  /\ LET m == NormalizeMaxItemChars(request.max_item_chars)
     IN  /\ max_item_chars' = m
         /\ IF m > 0 /\ m \notin DOMAIN NOUNS_LENGTHS
            THEN /\ pc' = "done"
                 /\ ret' = KeyError
                 /\ UNCHANGED <<particles, total_words>>
            ELSE /\ pc' = "hash"
                 /\ particles' = PrepareParticles(m, request.adjectives)
                 /\ total_words' = ProductOfLengths(particles')
                 /\ ret' = ret
  /\ UNCHANGED <<globals, request, obj_hash, index, codename_particles,
                 positions, earlier>>

\* Lines 293-294: no object, the size of the space is returned.
ReturnSpace ==
  /\ pc = "hash"
  /\ request.obj = None
  /\ pc' = "done"
  /\ ret' = IntResult(total_words)
  /\ UNCHANGED <<globals, request, locals, earlier>>

\* Lines 296-309: hash the object and reduce the hash to an index.
Hash ==
  /\ pc = "hash"
  /\ request.obj # None
  /\ pc' = "select"
  /\ obj_hash' = ObjHash(request.hash_algo, ObjectBytes(request.obj))
  /\ index' = BigMod(obj_hash', total_words)
  /\ codename_particles' = <<>>
  /\ UNCHANGED <<globals, request, max_item_chars, particles, total_words,
                 positions, ret, earlier>>

\* Lines 310-312, one iteration: take a word from the next list.
Select ==
  /\ pc = "select"
  /\ Len(codename_particles) < Len(particles)
  /\ LET p == particles[Len(codename_particles) + 1]
         n == BigOfInt(p.upto)
     IN  /\ codename_particles' =
               Append(codename_particles,
                      ParticleWords(p)[IntOfBig(BigMod(index, n)) + 1])
         /\ positions' = Append(positions, IntOfBig(BigMod(index, n)))
         /\ index' = TrueDivInt(index, n)
  /\ UNCHANGED <<globals, pc, request, max_item_chars, particles,
                 total_words, obj_hash, ret, earlier>>

\* A faulty variant of Finish: reverse() is also applied to NOUNS, the
\* list particles[0] refers to.
FinishReversingNouns ==
  /\ pc = "select"
  /\ Len(codename_particles) = Len(particles)
  /\ codename_particles' = Reverse(codename_particles)
  /\ NOUNS' = Reverse(NOUNS)
  /\ IF request.fn = "codenamize"
     THEN pc' = "format" /\ ret' = ret
     ELSE pc' = "done" /\ ret' = ListResult(codename_particles')
  /\ UNCHANGED <<ADJECTIVES, ADJECTIVES_LENGTHS, NOUNS_LENGTHS, request,
                 max_item_chars, particles, total_words, obj_hash, index,
                 positions, earlier>>

\* Lines 314-316: reverse the selection and return it, to the caller or to
\* codenamize.
Finish ==
  /\ pc = "select"
  /\ Len(codename_particles) = Len(particles)
  /\ codename_particles' = Reverse(codename_particles)
  /\ IF request.fn = "codenamize"
     THEN pc' = "format" /\ ret' = ret
     ELSE pc' = "done" /\ ret' = ListResult(codename_particles')
  /\ UNCHANGED <<globals, request, max_item_chars, particles, total_words,
                 obj_hash, index, positions, earlier>>

-----------------------------------------------------------------------------
(* codenamize, lines 327-352.                                              *)

LowerCase ==
  <<"a", "b", "c", "d", "e", "f", "g", "h", "i", "j", "k", "l", "m",
    "n", "o", "p", "q", "r", "s", "t", "u", "v", "w", "x", "y", "z">>
UpperCase ==
  <<"A", "B", "C", "D", "E", "F", "G", "H", "I", "J", "K", "L", "M",
    "N", "O", "P", "Q", "R", "S", "T", "U", "V", "W", "X", "Y", "Z">>

\* c.upper() for a one-character string.
Upper(c) ==
  IF \E i \in 1..26 : LowerCase[i] = c
  THEN UpperCase[CHOOSE i \in 1..26 : LowerCase[i] = c]
  ELSE c

\* Line 348: p[0].upper() + p[1:]
Capitalize(p) == Upper(SubSeq(p, 1, 1)) \o SubSeq(p, 2, Len(p))

RECURSIVE JoinWordsTrailing(_, _)
\* A faulty variant of JoinWords: the separator follows every word.
JoinWordsTrailing(sep, words) ==
  IF words = <<>> THEN ""
  ELSE words[1] \o sep \o JoinWordsTrailing(sep, Tail(words))

RECURSIVE JoinWords(_, _)
\* Line 350: sep.join(words)
JoinWords(sep, words) ==
  IF words = <<>> THEN ""
  ELSE IF Len(words) = 1 THEN words[1]
  ELSE words[1] \o sep \o JoinWords(sep, Tail(words))

\* Lines 345-350: the codename for the selected words.
FormatCodename(words, join, capitalize) ==
  LET sep == IF join = None THEN "" ELSE join.text
      ws  == IF capitalize
             THEN Tuple([i \in 1..Len(words) |-> Capitalize(words[i])])
             ELSE words
  IN  JoinWords(sep, ws)

\* Lines 345-352.
Format ==
  /\ pc = "format"
  /\ pc' = "done"
  /\ ret' = StrResult(FormatCodename(codename_particles, request.join,
                                     request.capitalize))
  /\ UNCHANGED <<globals, request, locals, earlier>>

-----------------------------------------------------------------------------
(* The callers.                                                            *)

\* The call's frame is gone once the caller has the returned value.
Leave ==
  /\ pc = "done"
  /\ pc' = "idle"
  /\ request' = None
  /\ max_item_chars' = 0
  /\ particles' = <<>>
  /\ total_words' = <<>>
  /\ obj_hash' = <<>>
  /\ index' = <<>>
  /\ codename_particles' = <<>>
  /\ positions' = <<>>
  /\ ret' = None
  /\ UNCHANGED globals

\* The caller drops the returned value.
Return == Leave /\ UNCHANGED earlier

\* The caller keeps the call and the value it returned, in place of the
\* one kept before.
Remember == Leave /\ earlier' = [request |-> request, ret |-> ret]

\* Calls of codenamize_particles made next to a remembered call.
RepeatParticles ==
  /\ pc = "idle"
  /\ \E o \in {IntObj(54), None}, a \in AdjectiveCounts,
        m \in RepeatItemChars, h \in RepeatHashAlgos :
       Enter(ParticlesRequest(o, a, m, h))

\* Calls of codenamize made next to a remembered call.
RepeatCodenamize ==
  /\ pc = "idle"
  /\ \E o \in RepeatObjects, a \in AdjectiveCounts, m \in RepeatItemChars,
        h \in RepeatHashAlgos :
       Enter(CodenamizeRequest(o, a, m, TextObj("-"), TRUE, h))

\* A call of codenamize_particles with an object known by its digest.
DecodeCall ==
  /\ pc = "idle"
  /\ \E d \in Digests, a \in AdjectiveCounts, m \in ItemChars :
       Enter(ParticlesRequest(DigestObj(d), a, m, "md5"))

\* Lines 305-309 for such an object.
HashDigest ==
  /\ pc = "hash"
  /\ request.obj.type = "digest"
  /\ pc' = "select"
  /\ obj_hash' = BigMul(request.obj.digest, Multiplier)
  /\ index' = BigMod(obj_hash', total_words)
  /\ codename_particles' = <<>>
  /\ UNCHANGED <<globals, request, max_item_chars, particles, total_words,
                 positions, ret, earlier>>

Next ==
  \/ CallParticles
  \/ CallSpace
  \/ CallCodenamize
  \/ Prepare
  \/ ReturnSpace
  \/ Hash
  \/ Select
  \/ Finish
  \/ Format
  \/ Return

\* Every call of every entry point, one after the other.
Spec == Init /\ [][Next]_vars

NextHistory ==
  \/ RepeatParticles
  \/ RepeatCodenamize
  \/ Prepare
  \/ ReturnSpace
  \/ Hash
  \/ Select
  \/ Finish
  \/ Format
  \/ Return
  \/ Remember

\* Calls made one after the other by a caller that may remember one of
\* them and the value it returned.
SpecHistory == Init /\ [][NextHistory]_vars

NextDecode ==
  \/ DecodeCall
  \/ Prepare
  \/ HashDigest
  \/ Select
  \/ Finish
  \/ Return

\* Calls of codenamize_particles for objects of every digest drawn.
SpecDecode == Init /\ [][NextDecode]_vars

-----------------------------------------------------------------------------
(* Properties.                                                             *)

\* The ceiling in force for a requested ceiling c: 1 and 2 are raised to
\* 3, more than 9 is no ceiling (0).
EffectiveCeiling(c) ==
  IF c > 9 THEN 0 ELSE IF c = 1 \/ c = 2 THEN 3 ELSE c

\* The number of words of a list in force for a requested ceiling c.
EffectiveSize(list, table, c) ==
  IF EffectiveCeiling(c) = 0 THEN Len(list) ELSE table[EffectiveCeiling(c)]

EffectiveNounSize(c) == EffectiveSize(NOUNS, NOUNS_LENGTHS, c)
EffectiveAdjectiveSize(c) == EffectiveSize(ADJECTIVES, ADJECTIVES_LENGTHS, c)

RECURSIVE BigPow(_, _)
\* x^k
BigPow(x, k) == IF k = 0 THEN <<1>> ELSE BigMul(BigPow(x, k - 1), x)

\* The running call has returned and the remembered call was given the
\* arguments req.
EarlierWas(req) ==
  /\ pc = "done"
  /\ earlier # None
  /\ earlier.request = req

\* C1: a call of codenamize or codenamize_particles given the arguments of
\* a remembered earlier call returns the value that call returned,
\* whatever calls were made before and between the two.
C1_Determinism ==
  EarlierWas(request) => ret = earlier.ret

C1_Witness ==
  /\ EarlierWas(request)
  /\ request.fn = "codenamize"
  /\ request.adjectives = 2
  /\ ret.type = "str"
  /\ ret = earlier.ret

\* C2: the words codenamize_particles returns with a adjectives are the
\* last a + 1 words of those it returned for the same object, ceiling and
\* hash algorithm with a + 1 adjectives.
C2_SuffixRetention ==
  (/\ EarlierWas([request EXCEPT !.adjectives = @ + 1])
   /\ ret.type = "list")
  => ret.list = SubSeq(earlier.ret.list,
                       Len(earlier.ret.list) - request.adjectives,
                       Len(earlier.ret.list))

\* Largest space whose codenames are enumerated.
MaxCodenames == 600

RECURSIVE DecodeWords(_, _)
\* Lines 310-314 for an index i below 2^31, where int(i / n) is the floor
\* quotient: the word of the first list comes last.
DecodeWords(ps, i) ==
  IF ps = <<>> THEN <<>>
  ELSE Append(DecodeWords(Tail(ps), i \div Head(ps).upto),
              ParticleWords(Head(ps))[(i % Head(ps).upto) + 1])

\* The word sequences codenamize_particles returns for the lists ps as
\* the hash varies: index takes every value from 0 to total - 1.
Codenames(ps, total) == {DecodeWords(ps, i) : i \in 0..(total - 1)}

\* C3: the space size returned for an adjective count and a ceiling is
\* the number of distinct word sequences codenamize_particles can return
\* for them (checked for the spaces of at most MaxCodenames).
C3_SpaceCountsDistinctCodenames ==
  (/\ pc = "done"
   /\ request.obj = None
   /\ ret.type = "int"
   /\ BigCmp(ret.int, BigOfInt(MaxCodenames)) <= 0)
  => Cardinality(Codenames(particles, IntOfBig(ret.int))) = IntOfBig(ret.int)

\* C4: codenamize_space and codenamize_particles without an object return
\* effectiveNounSize * effectiveAdjectiveSize^a.
C4_SpaceFormula ==
  (pc = "done" /\ request.obj = None)
  => ret = IntResult(
             BigMul(BigOfInt(EffectiveNounSize(request.max_item_chars)),
                    BigPow(BigOfInt(EffectiveAdjectiveSize(
                                      request.max_item_chars)),
                           request.adjectives)))

C4_Witness ==
  /\ pc = "done"
  /\ request.fn = "codenamize_space"
  /\ request.adjectives = 2
  /\ request.max_item_chars = 5
  /\ ret = IntResult(BigOfInt(1965990))

\* C5: no ceiling makes a call fail, a ceiling of 1 or 2 gives the space
\* size and the words of ceiling 3, and a ceiling above 9 gives those of
\* ceiling 0.
C5_CeilingClamping ==
  /\ pc = "done" => ret # KeyError
  /\ (/\ EarlierWas([request EXCEPT !.max_item_chars = EffectiveCeiling(@)])
      /\ (request.max_item_chars \in {1, 2} \/ request.max_item_chars > 9))
     => ret = earlier.ret

C5_Witness ==
  /\ EarlierWas([request EXCEPT !.max_item_chars = 3])
  /\ request.max_item_chars = 2
  /\ request.adjectives = 1
  /\ ret.type = "list"
  /\ ret = earlier.ret

\* The words of a module-level list that a slice of upto words leaves out
\* are the ones longer than c.
SliceIsWordsUpTo(list, upto, c) ==
  \A i \in 1..Len(list) : (i <= upto) <=> (Len(list[i]) <= c)

\* C6: for a requested ceiling c in 1..9 the lists of particles hold
\* exactly the words of at most max(c, 3) characters, and so does every
\* word codenamize_particles returns.
C6_CeilingRespected ==
  LET c == IF request.max_item_chars < 3 THEN 3 ELSE request.max_item_chars
  IN  /\ (pc = "hash" /\ request.max_item_chars \in 1..9)
         => /\ SliceIsWordsUpTo(NOUNS, particles[1].upto, c)
            /\ \A k \in 2..Len(particles) :
                 particles[k] = particles[2]
            /\ Len(particles) > 1
               => SliceIsWordsUpTo(ADJECTIVES, particles[2].upto, c)
      /\ (pc = "done" /\ ret.type = "list"
          /\ request.max_item_chars \in 1..9)
         => \A i \in 1..Len(ret.list) : Len(ret.list[i]) <= c

C6_Witness ==
  /\ pc = "done"
  /\ ret.type = "list"
  /\ request.max_item_chars = 2
  /\ request.adjectives = 3
  /\ \A i \in 1..Len(ret.list) : Len(ret.list[i]) <= 3

\* C7: every word of ADJECTIVES and of NOUNS, and every word
\* codenamize_particles returns, has at least 3 characters.
C7_MinimumWordLength ==
  /\ \A i \in 1..Len(ADJECTIVES) : Len(ADJECTIVES[i]) >= 3
  /\ \A i \in 1..Len(NOUNS) : Len(NOUNS[i]) >= 3
  /\ (pc = "done" /\ ret.type = "list")
     => \A i \in 1..Len(ret.list) : Len(ret.list[i]) >= 3

\* C8: codenamize_particles returns a + 1 words; the last is the noun at
\* position index mod N, and the i-th to its left is the adjective at
\* position floor(index / (N * A^(i-1))) mod A, for index = obj_hash mod
\* total_words and N, A the effective list sizes.
C8_ShapeAndOrder ==
  (pc = "done" /\ ret.type = "list")
  => LET a == request.adjectives
         N == BigOfInt(EffectiveNounSize(request.max_item_chars))
         A == BigOfInt(EffectiveAdjectiveSize(request.max_item_chars))
         idx == BigMod(obj_hash, BigMul(N, BigPow(A, a)))
         AdjectiveAt(i) ==
           ADJECTIVES[IntOfBig(BigMod(
                        BigDivMod(idx, BigMul(N, BigPow(A, i - 1))).q,
                        A)) + 1]
     IN  /\ Len(ret.list) = a + 1
         /\ ret.list[a + 1] = NOUNS[IntOfBig(BigMod(idx, N)) + 1]
         /\ \A i \in 1..a : ret.list[a + 1 - i] = AdjectiveAt(i)

\* The base-10 text of the integers among the modelled objects.
DecimalText(n) == CASE n = 54 -> "54" [] n = -7 -> "-7"

\* C9: codenamize returns for an integer n the codename it returned for
\* the base-10 text of n with the same other arguments.
C9_NumberTextEquivalence ==
  (/\ pc = "done"
   /\ request.fn = "codenamize"
   /\ request.obj.type = "int"
   /\ EarlierWas([request EXCEPT
                    !.obj = TextObj(DecimalText(request.obj.int))]))
  => ret = earlier.ret

C9_Witness ==
  /\ EarlierWas([request EXCEPT !.obj = TextObj("-7")])
  /\ request.fn = "codenamize"
  /\ request.obj = IntObj(-7)
  /\ request.adjectives = 1
  /\ ret.type = "str"
  /\ ret = earlier.ret

\* w with its first character uppercased when cap holds.
Shown(w, cap) ==
  IF cap THEN Upper(SubSeq(w, 1, 1)) \o SubSeq(w, 2, Len(w)) ELSE w

RECURSIVE JoinedUpTo(_, _, _, _)
\* w1' + s + w2' + ... + s + wk' for the first k of words.
JoinedUpTo(words, s, cap, k) ==
  IF k = 0 THEN ""
  ELSE IF k = 1 THEN Shown(words[1], cap)
  ELSE JoinedUpTo(words, s, cap, k - 1) \o s \o Shown(words[k], cap)

RECURSIVE TotalLen(_, _)
\* The sum of the lengths of the first k of words.
TotalLen(words, k) ==
  IF k = 0 THEN 0 ELSE TotalLen(words, k - 1) + Len(words[k])

\* C10: codenamize returns the selected words, each with its first
\* character uppercased when capitalize is true, with the join string
\* between them; with an empty join and capitalize true every word starts
\* at an uppercase letter and the length is the sum of the word lengths.
C10_FormatterResult ==
  (pc = "done" /\ request.fn = "codenamize" /\ ret.type = "str")
  => LET words == codename_particles
         s == IF request.join = None THEN "" ELSE request.join.text
         k == Len(words)
     IN  /\ ret.str = JoinedUpTo(words, s, request.capitalize, k)
         /\ (s = "" /\ request.capitalize)
            => /\ Len(ret.str) = TotalLen(words, k)
               /\ \A i \in 1..k :
                    \E u \in 1..26 :
                      SubSeq(ret.str, TotalLen(words, i - 1) + 1,
                             TotalLen(words, i - 1) + 1) = UpperCase[u]

C10_Witness ==
  /\ pc = "done"
  /\ request.fn = "codenamize"
  /\ request.obj = IntObj(54)
  /\ request.adjectives = 2
  /\ request.max_item_chars = 0
  /\ request.join = None
  /\ request.capitalize
  /\ ret = StrResult("DrawnSereneUnderstory")

\* The space sizes the module docstring lists for a ceiling of 5
\* characters (lines 80, 86 and 92).
DocumentedSpaceSize(a) ==
  CASE a = 0 -> 742 [] a = 1 -> 241150 [] a = 2 -> 78373750

\* C11: with the shipped word lists codenamize_space(0, 5) is 742,
\* codenamize_space(1, 5) is 241150 and codenamize_space(2, 5) is 78373750.
C11_DocumentedSpaceSizes ==
  (/\ pc = "done"
   /\ request.fn = "codenamize_space"
   /\ request.max_item_chars = 5
   /\ request.adjectives \in 0..2)
  => ret = IntResult(BigOfInt(DocumentedSpaceSize(request.adjectives)))

\* C12: every pass of the loop leaves index = floor(index / len(L)).  The
\* loop starts from obj_hash mod total_words, and floor(floor(x / m) / n)
\* is floor(x / (m * n)), so after the lists L1..Lk index is the floor
\* quotient of its first value by len(L1) * ... * len(Lk).
C12_ExactFloorDivision ==
  pc = "select"
  => index = BigDivMod(BigMod(obj_hash, total_words),
                       ProductOfLengths(
                         SubSeq(particles, 1, Len(codename_particles)))).q

RECURSIVE MixedRadixValue(_, _)
\* The index whose digits are the positions pos in the lists ps, the
\* first list the least significant: pos[1] + len(ps[1]) * (pos[2] + ...).
MixedRadixValue(ps, pos) ==
  IF pos = <<>> THEN <<>>
  ELSE BigAdd(BigOfInt(Head(pos)),
              BigMulSmall(MixedRadixValue(Tail(ps), Tail(pos)),
                          Head(ps).upto))

\* C13: the loop maps the indexes below total_words one to one onto the
\* tuples of list positions.  No position is outside its list, index is 0
\* after the last list, and the positions are the mixed-radix digits of
\* the index the loop started from, so no two indexes give the same tuple
\* and, there being total_words tuples, every tuple is given.
C13_DecodeIsBijection ==
  /\ pc = "select"
     => \A k \in 1..Len(positions) :
          positions[k] \in 0..(particles[k].upto - 1)
  /\ (pc = "select" /\ Len(positions) = Len(particles))
     => /\ index = <<>>
        /\ MixedRadixValue(particles, positions)
             = BigMod(obj_hash, total_words)
=============================================================================
